---- MODULE Spec2Model ----
(***************************************************************************)
(* A model of the random-access gate of plonky2                            *)
(* (src/gates/random_access.rs): the wire layout of a row, the three       *)
(* constraint evaluations, the witness generator and the resolution of     *)
(* the witness of several rows.                                            *)
(***************************************************************************)
EXTENDS Integers, Sequences, FiniteSets, TLC

VARIABLES
    vec_size,          \* RandomAccessGate.vec_size
    D,                 \* the const generic D, the degree of the extension
    debug_assertions,  \* the build: TRUE when debug_assert! is compiled in
    witness,           \* PartialWitness: row -> slot -> field value or None
    gen,               \* row -> "pending" | "done" | "panicked"
    reads,             \* row -> the slots run_once asked the witness for
    writes,            \* row -> slot -> how many times the slot was set
    constraints,       \* row -> result of eval_unfiltered_base, or None
    ext_constraints,   \* result of eval_unfiltered on row 0, or None
    rec_constraints,   \* value of the circuit of eval_unfiltered_recursively
    queried,           \* the last call of an addressing function
    line               \* the constraints at the points of a line of rows

vars == <<vec_size, D, debug_assertions, witness, gen, reads, writes,
          constraints, ext_constraints, rec_constraints, queried, line>>

\* Option<T>: None, or Some(x); Unwrap panics on None in the code
None == <<>>

Some(x) == <<x>>

Unwrap(o) == o[1]

\* ------------------------------------------------------------------------
\* Bounds of the model.
\* ------------------------------------------------------------------------
MaxVecSize == 2
NumRows == 2
LayoutMaxVecSize == 5
LayoutMaxD == 4

\* the degrees of the extensions the evaluations are checked for
Degrees == {1, 2}

Rows == 0..(NumRows - 1)

\* ------------------------------------------------------------------------
\* The base field F (a prime field) and its extension of degree D,
\* F[X]/(X^D - W).
\* ------------------------------------------------------------------------
P == 5

FieldElems == 0..(P - 1)

ZERO == 0

ONE == 1

Add(a, b) == (a + b) % P

Sub(a, b) == (a - b + P) % P

Mul(a, b) == (a * b) % P

from_canonical_usize(n) == n % P

to_canonical_u64(x) == x % P

\* try_inverse: None for zero
try_inverse(x) ==
    IF x = ZERO THEN None
    ELSE Some(CHOOSE y \in FieldElems : Mul(x, y) = ONE)

\* `n as usize`: the target has 64-bit pointers, so that no canonical value
\* is truncated (the modulus stands for 2^64, P for an order below it).
UsizeModulus == 2 ^ 16

as_usize(n) == n % UsizeModulus

\* ------------------------------------------------------------------------
\* Wire addressing.  A Range a..b of Rust is the sequence <<a, ..., b-1>>.
\* Every caller passes an i below vec_size, which the functions assert in
\* debug builds.
\* ------------------------------------------------------------------------
Range(a, b) == [k \in 1..(b - a) |-> a + k - 1]

wires_access_index == 0

wires_element_to_compare == Range(1, D + 1)

\* a variant that starts the items at slot 1
wires_list_item_FromOne(i) ==
    LET start == i * D + 1
    IN  Range(start, start + D)

wires_list_item(i) ==
    LET start == (i + 1) * D + 1
    IN  Range(start, start + D)

start_of_intermediate_wires == (vec_size + 1) * D + 1

wire_equality_dummy_for_index(i) == start_of_intermediate_wires + i

wire_index_matches_for_index(i) == start_of_intermediate_wires + vec_size + i

num_wires == wire_index_matches_for_index(vec_size - 1) + 1

num_constraints == vec_size * (2 + D)

degree == 2

Indices == 0..(vec_size - 1)

Slots == 0..(num_wires - 1)

SeqRange(s) == {s[k] : k \in 1..Len(s)}

\* ------------------------------------------------------------------------
\* Arithmetic of F::Extension: an element is its D base-field coefficients.
\* ------------------------------------------------------------------------
ExtW == 2

RECURSIVE FieldSum(_)
FieldSum(terms) ==
    IF terms = <<>> THEN ZERO
    ELSE Add(Head(terms), FieldSum(Tail(terms)))

ExtFromBase(x) == [k \in 1..D |-> IF k = 1 THEN x ELSE ZERO]

ExtZERO == ExtFromBase(ZERO)

ExtONE == ExtFromBase(ONE)

ExtAdd(a, b) == [k \in 1..D |-> Add(a[k], b[k])]

ExtSub(a, b) == [k \in 1..D |-> Sub(a[k], b[k])]

\* the product of two polynomials of degree < D, reduced by X^D = W
ExtMul(a, b) ==
    [k \in 1..D |->
        FieldSum([n \in 1..(D * D) |->
            LET i == (n - 1) \div D
                j == (n - 1) % D
                t == Mul(a[i + 1], b[j + 1])
            IN  IF i + j = k - 1 THEN t
                ELSE IF i + j = k - 1 + D THEN Mul(ExtW, t)
                ELSE ZERO])]

\* ------------------------------------------------------------------------
\* Arithmetic of ExtensionAlgebra<F::Extension, D>: D coefficients, each an
\* element of F::Extension.
\* ------------------------------------------------------------------------
RECURSIVE ExtSum(_)
ExtSum(terms) ==
    IF terms = <<>> THEN ExtZERO
    ELSE ExtAdd(Head(terms), ExtSum(Tail(terms)))

AlgFromExt(x) == [k \in 1..D |-> IF k = 1 THEN x ELSE ExtZERO]

AlgSub(a, b) == [k \in 1..D |-> ExtSub(a[k], b[k])]

AlgMul(a, b) ==
    [k \in 1..D |->
        ExtSum([n \in 1..(D * D) |->
            LET i == (n - 1) \div D
                j == (n - 1) % D
                t == ExtMul(a[i + 1], b[j + 1])
            IN  IF i + j = k - 1 THEN t
                ELSE IF i + j = k - 1 + D THEN ExtMul(ExtFromBase(ExtW), t)
                ELSE ExtZERO])]

\* ------------------------------------------------------------------------
\* Constraint evaluation.  local_wires is a function from the slots of a
\* row to values; the result is the sequence `constraints`.
\* ------------------------------------------------------------------------
\* EvaluationVarsBase::get_local_ext, EvaluationVars::get_local_ext_algebra
get_local_ext(local_wires, wire_range) ==
    [k \in 1..Len(wire_range) |-> local_wires[wire_range[k]]]

RECURSIVE Collect(_, _)
\* the pushes of iterations 0 .. n-1 of a loop whose iteration i pushes body[i]
Collect(body, n) ==
    IF n = 0 THEN <<>>
    ELSE Collect(body, n - 1) \o body[n - 1]

\* a variant that subtracts ONE from index_matches
first_index_constraint_Swapped(difference, equality_dummy, index_matches) ==
    Sub(Mul(difference, equality_dummy), Sub(index_matches, ONE))

\* difference * equality_dummy - (F::ONE - index_matches)
first_index_constraint(difference, equality_dummy, index_matches) ==
    Sub(Mul(difference, equality_dummy), Sub(ONE, index_matches))

\* a variant that constrains nothing
second_index_constraint_Dropped(index_matches, difference) == ZERO

\* index_matches * difference
second_index_constraint(index_matches, difference) == Mul(index_matches, difference)

\* a variant without the selector
value_constraint_NoSelector(list_item, element_to_compare, index_matches) ==
    ExtSub(list_item, element_to_compare)

\* a variant of degree 3
value_constraint_Cubic(list_item, element_to_compare, index_matches) ==
    ExtMul(ExtMul(ExtSub(list_item, element_to_compare), ExtFromBase(index_matches)),
           ExtFromBase(index_matches))

\* a variant that subtracts the item from element_to_compare
value_constraint_Negated(list_item, element_to_compare, index_matches) ==
    ExtMul(ExtSub(element_to_compare, list_item), ExtFromBase(index_matches))

\* ((list_items[i] - element_to_compare) * index_matches.into()).to_basefield_array()
value_constraint(list_item, element_to_compare, index_matches) ==
    ExtMul(ExtSub(list_item, element_to_compare), ExtFromBase(index_matches))

eval_unfiltered_base(local_wires) ==
    LET access_index == local_wires[wires_access_index]
        list_items == [i \in Indices |-> get_local_ext(local_wires, wires_list_item(i))]
        element_to_compare == get_local_ext(local_wires, wires_element_to_compare)
        iteration(i) ==
            LET cur_index == from_canonical_usize(i)
                difference == Sub(cur_index, access_index)
                equality_dummy == local_wires[wire_equality_dummy_for_index(i)]
                index_matches == local_wires[wire_index_matches_for_index(i)]
            IN  <<first_index_constraint(difference, equality_dummy, index_matches),
                  second_index_constraint(index_matches, difference)>>
                \o value_constraint(list_items[i], element_to_compare, index_matches)
    IN  Collect([i \in Indices |-> iteration(i)], vec_size)

eval_unfiltered(local_wires) ==
    LET access_index == local_wires[wires_access_index]
        list_items == [i \in Indices |-> get_local_ext(local_wires, wires_list_item(i))]
        element_to_compare == get_local_ext(local_wires, wires_element_to_compare)
        iteration(i) ==
            LET cur_index == ExtFromBase(from_canonical_usize(i))
                difference == ExtSub(cur_index, access_index)
                equality_dummy == local_wires[wire_equality_dummy_for_index(i)]
                index_matches == local_wires[wire_index_matches_for_index(i)]
            IN  <<ExtSub(ExtMul(difference, equality_dummy), ExtSub(ExtONE, index_matches)),
                  ExtMul(index_matches, difference)>>
                \o AlgMul(AlgSub(list_items[i], element_to_compare),
                          AlgFromExt(index_matches))
    IN  Collect([i \in Indices |-> iteration(i)], vec_size)

\* ------------------------------------------------------------------------
\* The recursive context.  An ExtensionTarget is a node of the circuit the
\* builder has emitted: a wire of the row, a constant, or an operation on
\* two earlier targets.
\* ------------------------------------------------------------------------
WireTarget(slot) == <<"wire", slot>>

constant_extension(c) == <<"const", c>>

sub_extension(a, b) == <<"sub", a, b>>

mul_extension(a, b) == <<"mul", a, b>>

sub_ext_algebra(a, b) == [k \in 1..D |-> sub_extension(a[k], b[k])]

scalar_mul_ext_algebra(a, b) == [k \in 1..D |-> mul_extension(a, b[k])]

eval_unfiltered_recursively(local_wires) ==
    LET access_index == local_wires[wires_access_index]
        list_items == [i \in Indices |-> get_local_ext(local_wires, wires_list_item(i))]
        element_to_compare == get_local_ext(local_wires, wires_element_to_compare)
        iteration(i) ==
            LET cur_index_ext == ExtFromBase(from_canonical_usize(i))
                cur_index == constant_extension(cur_index_ext)
                difference == sub_extension(cur_index, access_index)
                equality_dummy == local_wires[wire_equality_dummy_for_index(i)]
                index_matches == local_wires[wire_index_matches_for_index(i)]
                prod == mul_extension(difference, equality_dummy)
                one == constant_extension(ExtONE)
                not_index_matches == sub_extension(one, index_matches)
                first_equality_constraint == sub_extension(prod, not_index_matches)
                second_equality_constraint == mul_extension(index_matches, difference)
                diff == sub_ext_algebra(list_items[i], element_to_compare)
                conditional_diff == scalar_mul_ext_algebra(index_matches, diff)
            IN  <<first_equality_constraint, second_equality_constraint>>
                \o conditional_diff
    IN  Collect([i \in Indices |-> iteration(i)], vec_size)

RECURSIVE EvaluateTarget(_, _)
\* the value the emitted circuit gives a target when the wires of the row
\* hold ext_wires
EvaluateTarget(t, ext_wires) ==
    CASE t[1] = "wire"  -> ext_wires[t[2]]
      [] t[1] = "const" -> t[2]
      [] t[1] = "sub"   -> ExtSub(EvaluateTarget(t[2], ext_wires),
                                  EvaluateTarget(t[3], ext_wires))
      [] t[1] = "mul"   -> ExtMul(EvaluateTarget(t[2], ext_wires),
                                  EvaluateTarget(t[3], ext_wires))

\* the embedding of a base-field assignment into the extension
EmbedWires(local_wires) == [s \in DOMAIN local_wires |-> ExtFromBase(local_wires[s])]

TargetWires == [s \in Slots |-> WireTarget(s)]

\* ------------------------------------------------------------------------
\* The witness generator of a row.
\* ------------------------------------------------------------------------
\* a variant without the items of the list
dependencies_NoList == <<wires_access_index>> \o wires_element_to_compare

\* the slots of the targets dependencies() returns, in its order
dependencies ==
    LET deps0 == <<wires_access_index>>
        deps1 == deps0 \o wires_element_to_compare
    IN  deps1 \o Collect([i \in Indices |-> wires_list_item(i)], vec_size)

\* the slots run_once passes to witness.get_wire
run_once_reads ==
    UNION {SeqRange(wires_list_item(i)) : i \in Indices}
        \cup SeqRange(wires_element_to_compare)
        \cup {wires_access_index}

\* Vec::insert: panics (None) when index > len
VecInsert(v, index, element) ==
    IF index > Len(v) THEN None
    ELSE Some([k \in 1..(Len(v) + 1) |->
            IF k < index + 1 THEN v[k]
            ELSE IF k = index + 1 THEN element
            ELSE v[k - 1]])

Panic == [panic |-> TRUE, values |-> <<>>]

\* a variant that inverts access_index - i
equality_dummy_val_Swapped(i, access_index) ==
    IF i = access_index THEN Some(ONE)
    ELSE try_inverse(Sub(from_canonical_usize(access_index), from_canonical_usize(i)))

\* the value pushed to equality_dummy_vals in iteration i; inverse() panics
\* (None) on zero
equality_dummy_val(i, access_index) ==
    IF i = access_index THEN Some(ONE)
    ELSE try_inverse(Sub(from_canonical_usize(i), from_canonical_usize(access_index)))

\* a variant that inserts the one at the front
index_matches_vals_Front(access_index) ==
    VecInsert([k \in 1..(vec_size - 1) |-> ZERO], 0, ONE)

\* a variant that keeps the values the loop pushed
index_matches_vals_Loop(access_index) ==
    Some([k \in 1..vec_size |-> IF k - 1 = access_index THEN ONE ELSE ZERO])

\* vec![F::ZERO; vec_size - 1] with F::ONE inserted at access_index, which
\* shadows the values the loop pushed; a panic of insert is None
index_matches_vals(access_index) ==
    VecInsert([k \in 1..(vec_size - 1) |-> ZERO], access_index, ONE)

\* run_once on the wires of its row: a panic, or the GeneratedValues, the
\* sequence of the (slot, value) pairs set_wire was called with.  It panics
\* when get_wire finds no value, when the debug assertion fails, when
\* inverse() is given zero and when insert is given an index above the length.
run_once(row_wires) ==
    LET get_local_wire(input) == Unwrap(row_wires[input])
        access_index_f == get_local_wire(wires_access_index)
        access_index == as_usize(to_canonical_u64(access_index_f))
        equality_dummy_vals == [k \in 1..vec_size |-> equality_dummy_val(k - 1, access_index)]
        matches == index_matches_vals(access_index)
    IN  IF \E s \in run_once_reads : row_wires[s] = None THEN Panic
        ELSE IF debug_assertions /\ ~(access_index < vec_size) THEN Panic
        ELSE IF \E k \in 1..vec_size : equality_dummy_vals[k] = None THEN Panic
        ELSE IF matches = None THEN Panic
        ELSE [panic |-> FALSE,
              values |->
                Collect([i \in Indices |->
                    << <<wire_equality_dummy_for_index(i), Unwrap(equality_dummy_vals[i + 1])>>,
                       <<wire_index_matches_for_index(i), Unwrap(matches)[i + 1]>> >>],
                    vec_size)]

\* ------------------------------------------------------------------------
\* The partial witness.
\* ------------------------------------------------------------------------
EmptyRow == [s \in Slots |-> None]

Resolved(row_wires) == {s \in Slots : row_wires[s] # None}

Full(r) == Resolved(witness[r]) = Slots

\* the values of a fully resolved row
Values(row_wires) == [s \in Slots |-> Unwrap(row_wires[s])]

RECURSIVE SetWires(_, _)
\* set_wire for each pair of a sequence, in order
SetWires(row_wires, pairs) ==
    IF pairs = <<>> THEN row_wires
    ELSE SetWires([row_wires EXCEPT ![Head(pairs)[1]] = Some(Head(pairs)[2])], Tail(pairs))

RECURSIVE CountWrites(_, _)
CountWrites(row_writes, pairs) ==
    IF pairs = <<>> THEN row_writes
    ELSE CountWrites([row_writes EXCEPT ![Head(pairs)[1]] = @ + 1], Tail(pairs))

\* the pairs that set the wires of a range to the coefficients of a value
RangePairs(wire_range, value) == [k \in 1..Len(wire_range) |-> <<wire_range[k], value[k]>>]

Aborted == \E r \in Rows : gen[r] = "panicked"

\* ------------------------------------------------------------------------
\* Inputs of the model.
\* ------------------------------------------------------------------------
\* extension-field values that differ in their last coefficient only
sample(i) == [k \in 1..D |-> IF k = D THEN (i + 1) % P ELSE 3 % P]

\* a list of pairwise different items
SampleList == [i \in Indices |-> sample(i)]

ListSamples == {SampleList, [i \in Indices |-> sample(0)]}

RichSamples == {sample(0), sample(1), sample(2)}

DummySamples == {1, 3}

MatchSamples == {0, 1, 2}

\* get_wires of the tests: the wires of a row, in the order of the layout
get_wires(orig_vec, access_index, element_to_compare, dummy_vals, matches_vals) ==
    LET v == <<access_index>>
             \o element_to_compare
             \o Collect([j \in Indices |-> orig_vec[j]], vec_size)
             \o dummy_vals
             \o matches_vals
    IN  [s \in Slots |-> IF s + 1 <= Len(v) THEN Some(v[s + 1]) ELSE None]

AsSeq(f) == [k \in 1..vec_size |-> f[k - 1]]

\* ------------------------------------------------------------------------
\* Actions.
\* ------------------------------------------------------------------------
\* the caller resolves the access index of a row
SetAccessIndex(r) ==
    /\ ~Aborted
    /\ witness[r][wires_access_index] = None
    /\ \E v \in FieldElems :
        LET pairs == <<<<wires_access_index, v>>>>
        IN  /\ witness' = [witness EXCEPT ![r] = SetWires(@, pairs)]
            /\ writes' = [writes EXCEPT ![r] = CountWrites(@, pairs)]
    /\ UNCHANGED <<vec_size, D, debug_assertions, gen, reads, constraints,
                   ext_constraints, rec_constraints, queried, line>>

\* the caller resolves element_to_compare of a row
SetElementToCompare(r) ==
    /\ ~Aborted
    /\ witness[r][wires_element_to_compare[1]] = None
    /\ \E e \in {sample(1)} :
        LET pairs == RangePairs(wires_element_to_compare, e)
        IN  /\ witness' = [witness EXCEPT ![r] = SetWires(@, pairs)]
            /\ writes' = [writes EXCEPT ![r] = CountWrites(@, pairs)]
    /\ UNCHANGED <<vec_size, D, debug_assertions, gen, reads, constraints,
                   ext_constraints, rec_constraints, queried, line>>

\* the caller resolves the list of a row
SetList(r) ==
    /\ ~Aborted
    /\ witness[r][wires_list_item(0)[1]] = None
    /\ \E l \in {SampleList} :
        LET pairs == Collect([i \in Indices |-> RangePairs(wires_list_item(i), l[i])], vec_size)
        IN  /\ witness' = [witness EXCEPT ![r] = SetWires(@, pairs)]
            /\ writes' = [writes EXCEPT ![r] = CountWrites(@, pairs)]
    /\ UNCHANGED <<vec_size, D, debug_assertions, gen, reads, constraints,
                   ext_constraints, rec_constraints, queried, line>>

\* the scheduler runs the generator of a row whose dependencies are resolved
\* and writes what it returns; a panic aborts the pass
RunGenerator(r) ==
    /\ ~Aborted
    /\ gen[r] = "pending"
    /\ SeqRange(dependencies) \subseteq Resolved(witness[r])
    /\ LET result == run_once(witness[r])
       IN  /\ reads' = [reads EXCEPT ![r] = run_once_reads]
           /\ IF result.panic
              THEN /\ gen' = [gen EXCEPT ![r] = "panicked"]
                   /\ UNCHANGED <<witness, writes>>
              ELSE /\ gen' = [gen EXCEPT ![r] = "done"]
                   /\ witness' = [witness EXCEPT ![r] = SetWires(@, result.values)]
                   /\ writes' = [writes EXCEPT ![r] = CountWrites(@, result.values)]
    /\ UNCHANGED <<vec_size, D, debug_assertions, constraints,
                   ext_constraints, rec_constraints, queried, line>>

\* the constraints of a fully resolved row are evaluated over the base field
EvalBase(r) ==
    /\ ~Aborted
    /\ constraints[r] = None
    /\ Resolved(witness[r]) = Slots
    /\ constraints' = [constraints EXCEPT ![r] = Some(eval_unfiltered_base(Values(witness[r])))]
    /\ UNCHANGED <<vec_size, D, debug_assertions, witness, gen, reads, writes,
                   ext_constraints, rec_constraints, queried, line>>

\* the same row, embedded, is evaluated over the extension field
EvalExt ==
    /\ constraints[0] # None
    /\ ext_constraints = None
    /\ ext_constraints' = Some(eval_unfiltered(EmbedWires(Values(witness[0]))))
    /\ UNCHANGED <<vec_size, D, debug_assertions, witness, gen, reads, writes,
                   constraints, rec_constraints, queried, line>>

\* the circuit of the recursive evaluation is emitted and evaluated on the
\* same embedded row
EvalRec ==
    /\ ext_constraints # None
    /\ rec_constraints = None
    /\ LET circuit == eval_unfiltered_recursively(TargetWires)
       IN  rec_constraints' =
               Some([k \in 1..Len(circuit) |->
                        EvaluateTarget(circuit[k], EmbedWires(Values(witness[0])))])
    /\ UNCHANGED <<vec_size, D, debug_assertions, witness, gen, reads, writes,
                   constraints, ext_constraints, queried, line>>

Call(fn, arg, result) ==
    /\ queried' = Some([fn |-> fn, arg |-> arg, result |-> result])
    /\ UNCHANGED <<vec_size, D, debug_assertions, witness, gen, reads, writes,
                   constraints, ext_constraints, rec_constraints, line>>

CallAccessIndex == Call("wires_access_index", None, wires_access_index)

CallElementToCompare == Call("wires_element_to_compare", None, wires_element_to_compare)

CallListItem == \E i \in Indices : Call("wires_list_item", Some(i), wires_list_item(i))

CallEqualityDummy ==
    \E i \in Indices : Call("wire_equality_dummy_for_index", Some(i), wire_equality_dummy_for_index(i))

CallIndexMatches ==
    \E i \in Indices : Call("wire_index_matches_for_index", Some(i), wire_index_matches_for_index(i))

CallNumWires == Call("num_wires", None, num_wires)

\* the caller resolves every primary wire of row 0
SupplyPrimary ==
    /\ Resolved(witness[0]) = {}
    /\ \E a \in FieldElems, e \in RichSamples, l \in [Indices -> RichSamples] :
        witness' = [witness EXCEPT ![0] = get_wires(l, a, e, <<>>, <<>>)]
    /\ writes' = [writes EXCEPT ![0] = [s \in Slots |-> IF witness'[0][s] # None THEN 1 ELSE 0]]
    /\ UNCHANGED <<vec_size, D, debug_assertions, gen, reads, constraints,
                   ext_constraints, rec_constraints, queried, line>>

\* a prover assigns every wire of row 0, the derived wires included: any
\* access index and any values of the derived wires
AssignRow ==
    /\ Resolved(witness[0]) = {}
    /\ \E a \in FieldElems, l \in ListSamples,
          q \in [Indices -> FieldElems], m \in [Indices -> FieldElems] :
       \E e \in {l[a % vec_size]} \cup (IF l = SampleList THEN {sample(vec_size)} ELSE {}) :
        witness' = [witness EXCEPT ![0] = get_wires(l, a, e, AsSeq(q), AsSeq(m))]
    /\ writes' = [writes EXCEPT ![0] = [s \in Slots |-> 1]]
    /\ UNCHANGED <<vec_size, D, debug_assertions, gen, reads, constraints,
                   ext_constraints, rec_constraints, queried, line>>

\* row 0 is assigned sampled values, as the tests of the evaluations do
AssignSampled ==
    /\ Resolved(witness[0]) = {}
    /\ \E a \in FieldElems, e \in {sample(0), sample(1)}, l \in ListSamples,
          q \in [Indices -> DummySamples], m \in [Indices -> MatchSamples] :
        witness' = [witness EXCEPT ![0] = get_wires(l, a, e, AsSeq(q), AsSeq(m))]
    /\ writes' = [writes EXCEPT ![0] = [s \in Slots |-> 1]]
    /\ UNCHANGED <<vec_size, D, debug_assertions, gen, reads, constraints,
                   ext_constraints, rec_constraints, queried, line>>

\* the directions of the lines: the sums of one, two or three unit vectors
Directions ==
    {[s \in Slots |-> IF s \in S THEN ONE ELSE ZERO] :
        S \in {T \in SUBSET Slots : Cardinality(T) \in 1..3}}

\* the row at step t of the line through local_wires in direction h
LinePoint(local_wires, h, t) ==
    [s \in Slots |-> Add(local_wires[s], Mul(from_canonical_usize(t), h[s]))]

\* row 0 is assigned the base point of a line
AssignLinePoint ==
    /\ Resolved(witness[0]) = {}
    /\ \E a \in FieldElems, q \in DummySamples, m \in MatchSamples :
        witness' = [witness EXCEPT ![0] =
                      get_wires(SampleList, a, sample(vec_size),
                                [k \in 1..vec_size |-> q], [k \in 1..vec_size |-> m])]
    /\ writes' = [writes EXCEPT ![0] = [s \in Slots |-> 1]]
    /\ UNCHANGED <<vec_size, D, debug_assertions, gen, reads, constraints,
                   ext_constraints, rec_constraints, queried, line>>

\* the constraints are evaluated at degree + 2 equidistant rows of a line
\* through row 0, as the low-degree test of the gates evaluates them on
\* wires that are polynomials of degree 1
EvalLine ==
    /\ Full(0)
    /\ line = None
    /\ \E h \in Directions :
        line' = Some([t \in 0..(degree + 1) |->
                        eval_unfiltered_base(LinePoint(Values(witness[0]), h, t))])
    /\ UNCHANGED <<vec_size, D, debug_assertions, witness, gen, reads, writes,
                   constraints, ext_constraints, rec_constraints, queried>>

\* ------------------------------------------------------------------------
\* Specifications.
\* ------------------------------------------------------------------------
\* a gate of some shape in some build, and an empty partial witness
InitGate(MaxV, Degs, Builds) ==
    /\ vec_size \in 1..MaxV
    /\ D \in Degs
    /\ debug_assertions \in Builds
    /\ witness = [r \in Rows |-> EmptyRow]
    /\ writes = [r \in Rows |-> [s \in Slots |-> 0]]
    /\ gen = [r \in Rows |-> "pending"]
    /\ reads = [r \in Rows |-> {}]
    /\ constraints = [r \in Rows |-> None]
    /\ ext_constraints = None
    /\ rec_constraints = None
    /\ queried = None
    /\ line = None

\* witness resolution of NumRows rows, operand by operand
Init == InitGate(MaxVecSize, Degrees, BOOLEAN)

Next ==
    \/ \E r \in Rows : SetAccessIndex(r)
    \/ \E r \in Rows : SetElementToCompare(r)
    \/ \E r \in Rows : SetList(r)
    \/ \E r \in Rows : RunGenerator(r)

Spec == Init /\ [][Next]_vars

\* one row: its primary wires are resolved, its generator runs, its
\* constraints are evaluated
InitRow == InitGate(MaxVecSize, Degrees, BOOLEAN)

NextRow ==
    \/ SupplyPrimary
    \/ \E r \in Rows : RunGenerator(r)
    \/ \E r \in Rows : EvalBase(r)

SpecRow == InitRow /\ [][NextRow]_vars

\* one row every wire of which a prover has chosen
InitAssigned == InitGate(MaxVecSize, Degrees, {TRUE})

NextAssigned ==
    \/ AssignRow
    \/ \E r \in Rows : EvalBase(r)

SpecAssigned == InitAssigned /\ [][NextAssigned]_vars

\* one row of sampled values, evaluated in the three contexts
InitContexts == InitGate(MaxVecSize, Degrees, {TRUE})

NextContexts ==
    \/ AssignSampled
    \/ \E r \in Rows : EvalBase(r)
    \/ EvalExt
    \/ EvalRec

SpecContexts == InitContexts /\ [][NextContexts]_vars

\* the constraints along the lines through a row
InitDegree == InitGate(MaxVecSize, Degrees, {TRUE})

NextDegree ==
    \/ AssignLinePoint
    \/ EvalLine

SpecDegree == InitDegree /\ [][NextDegree]_vars

\* the addressing functions of a gate of any shape
InitLayout == InitGate(LayoutMaxVecSize, 1..LayoutMaxD, {TRUE})

NextLayout ==
    \/ CallAccessIndex
    \/ CallElementToCompare
    \/ CallListItem
    \/ CallEqualityDummy
    \/ CallIndexMatches
    \/ CallNumWires

SpecLayout == InitLayout /\ [][NextLayout]_vars

\* ------------------------------------------------------------------------
\* The operands a row holds.
\* ------------------------------------------------------------------------
AccessIndexOf(r) == Unwrap(witness[r][wires_access_index])

ExtAt(r, wire_range) == [k \in 1..Len(wire_range) |-> Unwrap(witness[r][wire_range[k]])]

ElementOf(r) == ExtAt(r, wires_element_to_compare)

ListItemOf(r, i) == ExtAt(r, wires_list_item(i))

DummyOf(r, i) == Unwrap(witness[r][wire_equality_dummy_for_index(i)])

MatchesOf(r, i) == Unwrap(witness[r][wire_index_matches_for_index(i)])

Evaluated(r) == constraints[r] # None

AllZero(cs) == \A k \in 1..Len(cs) : cs[k] = ZERO

InRange(a) == a < vec_size

\* y is the field inverse of x
IsInverse(y, x) == Mul(y, x) = ONE

\* the derived wires of row r follow the canonical rule for the index a
Canonical(r, a) ==
    \A i \in Indices :
        IF i = a
        THEN MatchesOf(r, i) = ONE /\ DummyOf(r, i) = ONE
        ELSE MatchesOf(r, i) = ZERO /\ IsInverse(DummyOf(r, i), Sub(i, a))

PrimarySlots == 0..((vec_size + 1) * D)

DerivedSlots == Slots \ PrimarySlots

\* ------------------------------------------------------------------------
\* C1.  A row whose derived wires follow the canonical rule for an access
\* index in [0, vec_size) evaluates to the all-zero vector when
\* element_to_compare = list[access_index], and to a vector with a
\* non-zero entry when element_to_compare differs from list[access_index].
\* ------------------------------------------------------------------------
C1_CanonicalRowSatisfiesIffEqual ==
    \A r \in Rows :
        (Evaluated(r) /\ InRange(AccessIndexOf(r)) /\ Canonical(r, AccessIndexOf(r)))
        => (AllZero(Unwrap(constraints[r]))
              <=> ElementOf(r) = ListItemOf(r, AccessIndexOf(r)))

C1_Witness ==
    /\ Evaluated(0)
    /\ vec_size >= 2
    /\ D >= 2
    /\ AccessIndexOf(0) = 1
    /\ Canonical(0, 1)
    /\ ElementOf(0) # ListItemOf(0, 1)
    /\ ~AllZero(Unwrap(constraints[0]))

\* ------------------------------------------------------------------------
\* C8.  Soundness: when the access index is in [0, vec_size) and every
\* constraint of a row is zero, whatever the derived wires were set to,
\* index_matches_i is 1 at i = access_index and 0 elsewhere,
\* equality_dummy_i is the inverse of i - access_index at every other i,
\* and element_to_compare = list_item(access_index).
\* ------------------------------------------------------------------------
C8_ZeroConstraintsForceSelection ==
    \A r \in Rows :
        (Evaluated(r) /\ InRange(AccessIndexOf(r)) /\ AllZero(Unwrap(constraints[r])))
        => /\ \A i \in Indices :
                /\ (MatchesOf(r, i) = ONE) <=> (i = AccessIndexOf(r))
                /\ i # AccessIndexOf(r) =>
                      /\ MatchesOf(r, i) = ZERO
                      /\ IsInverse(DummyOf(r, i), Sub(i, AccessIndexOf(r)))
           /\ ElementOf(r) = ListItemOf(r, AccessIndexOf(r))

\* a satisfying row whose dummy at the match is not the generator's 1
C8_Witness ==
    /\ Evaluated(0)
    /\ vec_size >= 2
    /\ InRange(AccessIndexOf(0))
    /\ AllZero(Unwrap(constraints[0]))
    /\ DummyOf(0, AccessIndexOf(0)) = 3

\* ------------------------------------------------------------------------
\* C9.  The constraints do not restrict the access index to
\* [0, vec_size): for an access index that differs from every i in
\* [0, vec_size), the row with every index_matches_i = 0 and
\* equality_dummy_i the inverse of i - access_index evaluates to the
\* all-zero vector, whatever the list and element_to_compare are.
\* ------------------------------------------------------------------------
C9_OutOfRangeIndexSatisfiable ==
    \A r \in Rows :
        (/\ Evaluated(r)
         /\ \A i \in Indices : from_canonical_usize(i) # AccessIndexOf(r)
         /\ \A i \in Indices :
               /\ MatchesOf(r, i) = ZERO
               /\ IsInverse(DummyOf(r, i), Sub(i, AccessIndexOf(r))))
        => AllZero(Unwrap(constraints[r]))

\* such a row, with an element_to_compare that is no item of the list
C9_Witness ==
    /\ Evaluated(0)
    /\ vec_size >= 2
    /\ ~InRange(AccessIndexOf(0))
    /\ \A i \in Indices :
          /\ MatchesOf(0, i) = ZERO
          /\ IsInverse(DummyOf(0, i), Sub(i, AccessIndexOf(0)))
          /\ ElementOf(0) # ListItemOf(0, i)
    /\ AllZero(Unwrap(constraints[0]))

\* ------------------------------------------------------------------------
\* C2.  On every assignment of base-field values to the wires of a row,
\* eval_unfiltered on the embedded row returns the embedding of what
\* eval_unfiltered_base returns, and the circuit of
\* eval_unfiltered_recursively evaluates to the same sequence: the same
\* num_constraints entries in the same order.
\* ------------------------------------------------------------------------
C2_ThreeContextsAgree ==
    /\ Evaluated(0) => Len(Unwrap(constraints[0])) = num_constraints
    /\ ext_constraints # None =>
          Unwrap(ext_constraints) =
              [k \in 1..num_constraints |-> ExtFromBase(Unwrap(constraints[0])[k])]
    /\ rec_constraints # None => Unwrap(rec_constraints) = Unwrap(ext_constraints)

\* a row with a non-zero entry in each of the three families of constraints
C2_Witness ==
    /\ rec_constraints # None
    /\ vec_size >= 2
    /\ D >= 2
    /\ Unwrap(constraints[0])[1] # ZERO
    /\ Unwrap(constraints[0])[2] # ZERO
    /\ Unwrap(constraints[0])[2 + D] # ZERO

\* ------------------------------------------------------------------------
\* C7.  Every constraint is a polynomial of total degree at most
\* degree() = 2 in the wires of the row: along every line of rows its
\* finite difference of order degree() + 1 is zero.
\* ------------------------------------------------------------------------
RECURSIVE FiniteDifference(_)
\* the finite difference of order Len(values) - 1 of a sequence of values
FiniteDifference(values) ==
    IF Len(values) = 1 THEN values[1]
    ELSE FiniteDifference([k \in 1..(Len(values) - 1) |-> Sub(values[k + 1], values[k])])

C7_ConstraintsHaveDegreeTwo ==
    line # None =>
        \A k \in 1..num_constraints :
            FiniteDifference([t \in 1..(degree + 2) |-> Unwrap(line)[t - 1][k]]) = ZERO

\* a line along which a constraint has degree 2 exactly
C7_Witness ==
    /\ line # None
    /\ vec_size >= 2
    /\ \E k \in 1..num_constraints :
          FiniteDifference([t \in 1..(degree + 1) |-> Unwrap(line)[t - 1][k]]) # ZERO

\* ------------------------------------------------------------------------
\* C3.  For an access index in [0, vec_size) run_once does not fail and
\* sets each of the 2 * vec_size derived wires of its row once and no
\* other wire: equality_dummy(i) and index_matches(i) to 1 at
\* i = access_index, to the inverse of i - access_index and to 0 elsewhere.
\* The values depend on the access index only.
\* ------------------------------------------------------------------------
C3_GeneratorOutput ==
    \A r \in Rows :
        /\ gen[r] = "panicked" => ~InRange(AccessIndexOf(r))
        /\ gen[r] = "done" =>
              /\ InRange(AccessIndexOf(r))
              /\ \A i \in Indices :
                    IF i = AccessIndexOf(r)
                    THEN DummyOf(r, i) = ONE /\ MatchesOf(r, i) = ONE
                    ELSE /\ IsInverse(DummyOf(r, i), Sub(i, AccessIndexOf(r)))
                         /\ MatchesOf(r, i) = ZERO
              /\ \A s \in Slots : writes[r][s] = 1
        /\ gen[r] # "done" => \A s \in DerivedSlots : writes[r][s] = 0

C3_Witness ==
    /\ gen[0] = "done"
    /\ vec_size >= 2
    /\ AccessIndexOf(0) = 1
    /\ MatchesOf(0, 0) = ZERO
    /\ DummyOf(0, 0) = P - 1

\* ------------------------------------------------------------------------
\* C4.  The claim as stated: the row the generator has completed from any
\* primary wires evaluates to the all-zero vector.
\* ------------------------------------------------------------------------
C4_Original_CompletionAlwaysSatisfies ==
    \A r \in Rows : Evaluated(r) => AllZero(Unwrap(constraints[r]))

\* C4 as amended.  The row the generator has completed evaluates to the
\* all-zero vector exactly when element_to_compare =
\* list_item(access_index); its two index constraints are zero at every i in
\* every case.
C4_CompletionSatisfiesIffEqual ==
    \A r \in Rows :
        (Evaluated(r) /\ gen[r] = "done") =>
            /\ AllZero(Unwrap(constraints[r]))
                  <=> ElementOf(r) = ListItemOf(r, AccessIndexOf(r))
            /\ \A i \in Indices :
                  /\ Unwrap(constraints[r])[i * (2 + D) + 1] = ZERO
                  /\ Unwrap(constraints[r])[i * (2 + D) + 2] = ZERO

C4_Witness ==
    /\ Evaluated(0)
    /\ gen[0] = "done"
    /\ vec_size >= 2
    /\ AccessIndexOf(0) = 1
    /\ ElementOf(0) = ListItemOf(0, 1)
    /\ ElementOf(0) # ListItemOf(0, 0)
    /\ AllZero(Unwrap(constraints[0]))

\* ------------------------------------------------------------------------
\* C5.  When the canonical integer of the access index is >= vec_size,
\* run_once fails in the debug build and in the release build, and no
\* derived wire of the row is ever written.
\* ------------------------------------------------------------------------
C5_OutOfRangeIndexPanics ==
    \A r \in Rows :
        (/\ witness[r][wires_access_index] # None
         /\ to_canonical_u64(AccessIndexOf(r)) >= vec_size)
        => /\ gen[r] # "done"
           /\ \A s \in DerivedSlots : witness[r][s] = None /\ writes[r][s] = 0

\* the failure in a release build
C5_Witness ==
    /\ gen[0] = "panicked"
    /\ ~debug_assertions
    /\ to_canonical_u64(AccessIndexOf(0)) >= vec_size
    /\ vec_size >= 2

\* ------------------------------------------------------------------------
\* C6.  The addressing functions return the closed-form layout: the access
\* index at slot 0, element_to_compare at [1, D+1), list_item(i) at
\* [(i+1)*D+1, (i+2)*D+1), equality_dummy(i) at (vec_size+1)*D+1+i,
\* index_matches(i) at (vec_size+1)*D+1+vec_size+i; these slots are pairwise
\* disjoint and cover [0, num_wires()), and
\* num_wires() = (vec_size+1)*D + 1 + 2*vec_size.
\* ------------------------------------------------------------------------
Interval(a, b) == [k \in 1..(b - a) |-> a + k - 1]

ClosedForm(fn, arg) ==
    CASE fn = "wires_access_index" -> 0
      [] fn = "wires_element_to_compare" -> Interval(1, D + 1)
      [] fn = "wires_list_item" -> Interval((arg[1] + 1) * D + 1, (arg[1] + 2) * D + 1)
      [] fn = "wire_equality_dummy_for_index" -> (vec_size + 1) * D + 1 + arg[1]
      [] fn = "wire_index_matches_for_index" -> (vec_size + 1) * D + 1 + vec_size + arg[1]
      [] fn = "num_wires" -> (vec_size + 1) * D + 1 + 2 * vec_size

\* the sets of slots of the operands, in the order of the layout
OperandSlots ==
    <<{wires_access_index}, SeqRange(wires_element_to_compare)>>
    \o [k \in 1..vec_size |-> SeqRange(wires_list_item(k - 1))]
    \o [k \in 1..vec_size |-> {wire_equality_dummy_for_index(k - 1)}]
    \o [k \in 1..vec_size |-> {wire_index_matches_for_index(k - 1)}]

C6_LayoutIsClosedForm ==
    /\ queried # None =>
          Unwrap(queried).result = ClosedForm(Unwrap(queried).fn, Unwrap(queried).arg)
    /\ \A j, k \in 1..Len(OperandSlots) : j # k => OperandSlots[j] \cap OperandSlots[k] = {}
    /\ UNION {OperandSlots[k] : k \in 1..Len(OperandSlots)} = 0..(num_wires - 1)
    /\ Cardinality(SeqRange(wires_element_to_compare)) = D
    /\ \A i \in Indices : Cardinality(SeqRange(wires_list_item(i))) = D

\* the gate of the test wire_indices: list_item(2) is 13..17
C6_Witness ==
    /\ queried # None
    /\ vec_size = 3
    /\ D = 4
    /\ Unwrap(queried).fn = "wires_list_item"
    /\ Unwrap(queried).arg = Some(2)
    /\ Unwrap(queried).result = <<13, 14, 15, 16>>

\* ------------------------------------------------------------------------
\* C10.  In every step of witness resolution: dependencies() is the
\* primary wires of the row; a generator that runs reads only wires of
\* dependencies(), all of them resolved, and writes only derived wires of
\* its own row; no resolved wire changes and no wire is written twice.
\* ------------------------------------------------------------------------
C10_GeneratorsAreIsolated ==
    [][/\ SeqRange(dependencies) = PrimarySlots
       /\ \A r \in Rows :
            /\ (gen[r] = "pending" /\ gen'[r] # "pending") =>
                  /\ reads'[r] \subseteq SeqRange(dependencies)
                  /\ reads'[r] \subseteq Resolved(witness[r])
                  /\ \A r2 \in Rows, s \in Slots :
                        witness'[r2][s] # witness[r2][s] => r2 = r /\ s \in DerivedSlots
            /\ \A s \in Slots :
                  /\ witness[r][s] # None => witness'[r][s] = witness[r][s]
                  /\ writes'[r][s] <= 1]_vars

\* the generator of row 1 has run while row 0 is not yet resolved
C10_Witness ==
    /\ gen[1] = "done"
    /\ gen[0] = "pending"
    /\ witness[0][wires_access_index] # None
    /\ ~Full(0)
    /\ vec_size >= 2

====
